---- MODULE Spec2Model ----
(***************************************************************************)
(* Model of library.py: the Library (in-memory catalog book_db plus the    *)
(* list of Book copies) and Simulation.simulate_day / daily_summary.       *)
(*                                                                         *)
(* A datetime is a record [d, m]: d is the calendar day counted from the   *)
(* day the ChancesAndTime object was constructed, m the minute of that     *)
(* day.  timedelta(days=1) adds 1 to d, timedelta(minutes=k) adds k to m   *)
(* (the window 10:00..20:00 never crosses midnight).                       *)
(*                                                                         *)
(* random.randint(0, time_difference) is modelled as on the interpreters   *)
(* that accept an integer-valued float bound.                              *)
(***************************************************************************)
EXTENDS Integers, Sequences, FiniteSets, TLC

VARIABLES csv, book_db, books, current_loop_time, current_time_minutes,
          current_day, pc, book_i, exc, last, borrow_log, summary,
          fresh, borrows, write_failed

vars == <<csv, book_db, books, current_loop_time, current_time_minutes,
          current_day, pc, book_i, exc, last, borrow_log, summary,
          fresh, borrows, write_failed>>

----------------------------------------------------------------------------
(* Bounds of the model *)

\* largest number of copies the rows of book_db.csv declare in total
MaxBooks == 2
\* minutes between start_time and end_time (600 in the program)
DayLen == 3
\* simulated minutes explored, over all days
MaxMinutes == 6

----------------------------------------------------------------------------
(* Program constants *)

\* 10:00, the minute of day of ChancesAndTime.start_time
StartMinute == 600

\* titles of the rows of book_db.csv, in row order
TitleSeq == <<"Dune", "Emma">>
CatalogTitles == {TitleSeq[k] : k \in 1..Len(TitleSeq)}
\* a title no row has
AllTitles == CatalogTitles \cup {"Ulysses"}

DEFAULT_DATE == [d |-> -20000, m |-> 61]
start_time == [d |-> 0, m |-> StartMinute]
end_time == [d |-> 0, m |-> StartMinute + DayLen]
NoTime == [d |-> -1, m |-> 0]

Before(a, b) == a.d < b.d \/ (a.d = b.d /\ a.m < b.m)
AddMinutes(t, k) == [t EXCEPT !.m = @ + k]
AddDays(t, k) == [t EXCEPT !.d = @ + k]
MinutesBetween(a, b) == b.m - a.m

date_up_to_minutes(t) == [d |-> t.d, m |-> t.m]

----------------------------------------------------------------------------
(* Book and Library *)

Book(title) ==
    [title |-> title, return_time |-> DEFAULT_DATE,
     returned |-> FALSE, borrowed |-> FALSE]

RECURSIVE process_rows(_, _)
process_rows(db, k) ==
    IF k > Len(TitleSeq) THEN <<>>
    ELSE [c \in 1..db[TitleSeq[k]] |-> Book(TitleSeq[k])]
         \o process_rows(db, k + 1)

_init_books(db) == process_rows(db, 1)

EmptyDb == [t \in {} |-> 0]

\* get_book_by_title: the row of the title, or {} when no row has it
HasRow(db, title) == title \in DOMAIN db

\* variant: the decrement is not restricted to the rows of the title
RemoveCopyAll(db, title) ==
    [t \in DOMAIN db |-> db[t] - 1]

\* variant: accepts a title whose count is 0
IsBorrowableAtZero(db, title) ==
    IF HasRow(db, title)
    THEN [exc |-> "none", value |-> db[title] >= 0]
    ELSE [exc |-> "KeyError", value |-> FALSE]

\* _is_book_borrowable: book["available_copies"] > 0, KeyError on {}
_is_book_borrowable(db, title) ==
    IF HasRow(db, title)
    THEN [exc |-> "none", value |-> db[title] > 0]
    ELSE [exc |-> "KeyError", value |-> FALSE]

\* the body of _remove_book_copy up to the write
RemoveCopy(db, title) ==
    [t \in DOMAIN db |-> IF t = title THEN db[t] - 1 ELSE db[t]]

\* the body of _add_book_copy up to the write
AddCopy(db, title) ==
    [t \in DOMAIN db |-> IF t = title THEN db[t] + 1 ELSE db[t]]

\* the action decorator: the wrapped body has run up to the raise
_remove_book_copy(db, title, write_ok) ==
    [db |-> RemoveCopy(db, title), result |-> write_ok]

_add_book_copy(db, title, write_ok) ==
    [db |-> AddCopy(db, title), result |-> write_ok]

borrow_book(db, title, write_ok) ==
    LET b == _is_book_borrowable(db, title) IN
    IF b.exc # "none"
    THEN [db |-> db, result |-> FALSE, exc |-> b.exc, write |-> "none"]
    ELSE IF b.value
    THEN LET r == _remove_book_copy(db, title, write_ok) IN
         [db |-> r.db, result |-> r.result, exc |-> "none",
          write |-> IF write_ok THEN "ok" ELSE "fail"]
    ELSE [db |-> db, result |-> FALSE, exc |-> "none", write |-> "none"]

return_book(db, title, write_ok) ==
    LET r == _add_book_copy(db, title, write_ok) IN
    [db |-> r.db, result |-> r.result, exc |-> "none",
     write |-> IF write_ok THEN "ok" ELSE "fail"]

\* variant: the rollover also makes a copy that came back available again
AnotherChanceResetting(bs) ==
    [i \in 1..Len(bs) |->
        IF bs[i].returned
        THEN [bs[i] EXCEPT !.return_time = AddDays(@, 1),
                           !.borrowed = FALSE, !.returned = FALSE]
        ELSE [bs[i] EXCEPT !.return_time = AddDays(@, 1)]]

another_chance_to_return(bs) ==
    [i \in 1..Len(bs) |->
        [bs[i] EXCEPT !.return_time = AddDays(@, 1)]]

----------------------------------------------------------------------------
(* ChancesAndTime *)

\* the values random_return_time can produce at simulation_current_time
random_return_times(now) ==
    {date_up_to_minutes(AddMinutes(now, k)) :
        k \in 0..MinutesBetween(now, end_time)}

----------------------------------------------------------------------------
(* Simulation *)

unreturned_books(bs) ==
    Cardinality({i \in 1..Len(bs) : ~bs[i].returned /\ bs[i].borrowed})

num_borrowed(bs) == Cardinality({i \in 1..Len(bs) : bs[i].borrowed})

\* "book.title for book in self.library.books if book.borrowed"
RECURSIVE borrowed_titles(_, _)
borrowed_titles(bs, i) ==
    IF i > Len(bs) THEN <<>>
    ELSE (IF bs[i].borrowed THEN <<bs[i].title>> ELSE <<>>)
         \o borrowed_titles(bs, i + 1)

\* the keys of Counter(seq), in the order they were first counted
RECURSIVE CounterKeys(_, _)
CounterKeys(seq, i) ==
    IF i > Len(seq) THEN <<>>
    ELSE LET rest == CounterKeys(seq, i + 1) IN
         <<seq[i]>> \o SelectSeq(rest, LAMBDA t : t # seq[i])

CounterValue(seq, t) == Cardinality({i \in 1..Len(seq) : seq[i] = t})

\* variant: among equal counts the key counted last wins
RECURSIVE MaxByCountLast(_, _, _, _)
MaxByCountLast(keys, seq, k, best) ==
    IF k > Len(keys) THEN best
    ELSE MaxByCountLast(keys, seq, k + 1,
            IF CounterValue(seq, keys[k]) >= CounterValue(seq, best)
            THEN keys[k] ELSE best)

\* max(items, key=count) as most_common(1) computes it: a later key
\* replaces the best one only with a strictly larger count
RECURSIVE MaxByCount(_, _, _, _)
MaxByCount(keys, seq, k, best) ==
    IF k > Len(keys) THEN best
    ELSE MaxByCount(keys, seq, k + 1,
            IF CounterValue(seq, keys[k]) > CounterValue(seq, best)
            THEN keys[k] ELSE best)

\* most_popular_book on an inventory with at least one borrowed copy
most_popular_book(bs) ==
    LET seq == borrowed_titles(bs, 1)
        keys == CounterKeys(seq, 1)
        t == MaxByCount(keys, seq, 2, keys[1])
    IN <<t, CounterValue(seq, t)>>

\* what daily_summary prints
Summary(bs) ==
    [most_popular_book |-> most_popular_book(bs)[1],
     times_borrowed |-> most_popular_book(bs)[2],
     num_borrowed |-> num_borrowed(bs),
     unreturned |-> unreturned_books(bs)]

NoSummary ==
    [most_popular_book |-> "", times_borrowed |-> 0,
     num_borrowed |-> 0, unreturned |-> 0]

Event(op, copy, ok, write) ==
    [op |-> op, copy |-> copy, ok |-> ok, write |-> write]

NoLog == [pre |-> 0, clean |-> FALSE]

\* the while test of simulate_day and the entry of the for loop
LoopEntry(t, bs) ==
    IF Before(t, end_time)
    THEN IF Len(bs) > 0 THEN "returns" ELSE "borrow"
    ELSE "summary"

RECURSIVE TotalCopies(_, _)
TotalCopies(db, k) ==
    IF k > Len(TitleSeq) THEN 0
    ELSE db[TitleSeq[k]] + TotalCopies(db, k + 1)

\* book_db.csv as found at startup: unreadable, or rows with their counts
CsvFiles ==
    {[ok |-> FALSE, rows |-> EmptyDb]}
    \cup {[ok |-> TRUE, rows |-> r] :
            r \in {x \in [CatalogTitles -> 0..MaxBooks] :
                     TotalCopies(x, 1) <= MaxBooks}}

Init ==
    /\ csv \in CsvFiles
    /\ book_db = EmptyDb
    /\ books = <<>>
    /\ current_loop_time = start_time
    /\ current_time_minutes = NoTime
    /\ current_day = 1
    /\ pc = "init"
    /\ book_i = 1
    /\ exc = "none"
    /\ last = Event("none", 0, FALSE, "none")
    /\ borrow_log = <<>>
    /\ summary = NoSummary
    /\ fresh = 0
    /\ borrows = 0
    /\ write_failed = FALSE

\* Simulation.__init__ followed by the first entry of simulate_day
SimulationInit ==
    /\ pc = "init"
    /\ IF csv.ok
       THEN /\ book_db' = csv.rows
            /\ books' = _init_books(csv.rows)
            /\ borrow_log' = [i \in 1..Len(_init_books(csv.rows)) |-> NoLog]
            /\ pc' = LoopEntry(start_time, _init_books(csv.rows))
            /\ exc' = "none"
       ELSE \* self.book_db was never assigned: _init_books raises
            /\ pc' = "crashed"
            /\ exc' = "AttributeError"
            /\ UNCHANGED <<book_db, books, borrow_log>>
    /\ last' = Event("init", 0, csv.ok, "none")
    /\ UNCHANGED <<csv, current_loop_time, current_time_minutes,
                   current_day, book_i, summary, fresh, borrows,
                   write_failed>>

\* variant: the return-time is not compared with the current minute
ReturnEligibleAnyTime(book, now) ==
    book.borrowed /\ ~book.returned

\* the guard of the return branch, before the dice roll
ReturnEligible(book, now) ==
    book.return_time = now /\ book.borrowed /\ ~book.returned

\* variant: a copy that came back is no longer marked borrowed
MarkReturnedClearsBorrowed(book, result) ==
    IF result THEN [book EXCEPT !.returned = TRUE, !.borrowed = FALSE]
    ELSE book

\* variant: the flag is set whatever return_book answered
MarkReturnedAlways(book, result) ==
    [book EXCEPT !.returned = TRUE]

\* the copy after library.return_book answered result
MarkReturned(book, result) ==
    IF result THEN [book EXCEPT !.returned = TRUE] ELSE book

\* variant: a copy is offered again once it came back
NotBorrowedOrReturned(book) == ~book.borrowed \/ book.returned

\* "book.borrowed is False", the first operand of the borrow condition
NotBorrowed(book) == ~book.borrowed

\* the copy after a successful borrow_book
MarkBorrowed(book, rt) ==
    [book EXCEPT !.borrowed = TRUE, !.returned = FALSE, !.return_time = rt]

\* bookkeeping for the round trip: the count before copy c's borrow, kept
\* (clean) until another copy of the title is borrowed or returned
LogBorrow(log, bs, c, pre) ==
    [j \in 1..Len(bs) |->
        IF j = c THEN [pre |-> pre, clean |-> TRUE]
        ELSE IF bs[j].title = bs[c].title THEN NoLog
        ELSE log[j]]

LogReturn(log, bs, c) ==
    [j \in 1..Len(bs) |->
        IF j = c THEN NoLog
        ELSE IF bs[j].title = bs[c].title THEN NoLog
        ELSE log[j]]

\* one iteration of "for book in self.library.books"
ReturnCheck ==
    /\ pc = "returns"
    /\ LET now == date_up_to_minutes(current_loop_time)
           b == books[book_i]
       IN /\ current_time_minutes' = now
          /\ IF ReturnEligible(b, now)
             THEN \E dice \in BOOLEAN :
                    IF dice
                    THEN \E write_ok \in BOOLEAN :
                           LET r == return_book(book_db, b.title, write_ok) IN
                           /\ book_db' = r.db
                           /\ books' = [books EXCEPT
                                          ![book_i] = MarkReturned(@, r.result)]
                           /\ borrow_log' =
                                IF r.result
                                THEN LogReturn(borrow_log, books, book_i)
                                ELSE borrow_log
                           /\ last' = Event("return", book_i, r.result, r.write)
                    ELSE /\ last' = Event("return_nodice", book_i, FALSE, "none")
                         /\ UNCHANGED <<book_db, books, borrow_log>>
             ELSE /\ last' = Event("check", book_i, FALSE, "none")
                  /\ UNCHANGED <<book_db, books, borrow_log>>
    /\ IF book_i < Len(books)
       THEN book_i' = book_i + 1 /\ pc' = "returns"
       ELSE book_i' = 1 /\ pc' = "borrow"
    /\ write_failed' = (write_failed \/ last'.write = "fail")
    /\ UNCHANGED <<csv, current_loop_time, current_day, exc, summary,
                   fresh, borrows>>

\* variant: the minute is not advanced before the while test
TickStuck ==
    /\ current_loop_time' = current_loop_time
    /\ pc' = LoopEntry(current_loop_time, books)
    /\ exc' = exc

\* "current_loop_time += timedelta(minutes=1)" and the while test
Tick ==
    /\ current_loop_time' = AddMinutes(current_loop_time, 1)
    /\ pc' = LoopEntry(AddMinutes(current_loop_time, 1), books)
    /\ exc' = exc

Crash(e) ==
    /\ pc' = "crashed"
    /\ exc' = e
    /\ UNCHANGED current_loop_time

\* the copy borrowed in the minute the loop is at after the step: c while
\* the loop is still at the minute of the step, none once it has moved on
FreshAfter(c) ==
    IF current_loop_time' = current_loop_time THEN c ELSE 0

\* the loop iterations completed since the start of the run
Elapsed ==
    (current_day - 1) * DayLen + MinutesBetween(start_time, current_loop_time)

\* the borrow part of one minute, then the tick
BorrowStep ==
    /\ pc = "borrow"
    /\ Elapsed < MaxMinutes
    /\ \E dice \in BOOLEAN :
         IF ~dice
         THEN /\ last' = Event("borrow_nodice", 0, FALSE, "none")
              /\ UNCHANGED <<book_db, books, borrow_log>>
              /\ Tick
         ELSE IF Len(books) = 0
         THEN \* random.randint(0, -1) raises
              /\ last' = Event("borrow", 0, FALSE, "none")
              /\ UNCHANGED <<book_db, books, borrow_log>>
              /\ Crash("ValueError")
         ELSE \E c \in 1..Len(books) :
                IF ~NotBorrowed(books[c])
                THEN /\ last' = Event("borrow", c, FALSE, "none")
                     /\ UNCHANGED <<book_db, books, borrow_log>>
                     /\ Tick
                ELSE \E write_ok \in BOOLEAN :
                       LET r == borrow_book(book_db, books[c].title, write_ok) IN
                       IF r.exc # "none"
                       THEN /\ last' = Event("borrow", c, FALSE, "none")
                            /\ UNCHANGED <<book_db, books, borrow_log>>
                            /\ Crash(r.exc)
                       ELSE IF r.result
                       THEN \E rt \in random_return_times(current_time_minutes) :
                              /\ book_db' = r.db
                              /\ books' = [books EXCEPT ![c] = MarkBorrowed(@, rt)]
                              /\ borrow_log' = LogBorrow(borrow_log, books, c,
                                                         book_db[books[c].title])
                              /\ last' = Event("borrow", c, TRUE, r.write)
                              /\ Tick
                       ELSE /\ book_db' = r.db
                            /\ last' = Event("borrow", c, FALSE, r.write)
                            /\ UNCHANGED <<books, borrow_log>>
                            /\ Tick
    /\ fresh' = FreshAfter(IF last'.ok THEN last'.copy ELSE fresh)
    /\ borrows' = borrows + (IF last'.ok THEN 1 ELSE 0)
    /\ write_failed' = (write_failed \/ last'.write = "fail")
    /\ UNCHANGED <<csv, current_time_minutes, current_day, book_i, summary>>

\* daily_summary: most_popular_book raises IndexError on an empty Counter
DailySummary ==
    /\ pc = "summary"
    /\ IF num_borrowed(books) = 0
       THEN /\ pc' = "crashed"
            /\ exc' = "IndexError"
            /\ books' = books
            /\ summary' = summary
       ELSE /\ pc' = "next_day"
            /\ exc' = exc
            /\ summary' = Summary(books)
            /\ books' = another_chance_to_return(books)
    /\ last' = Event("summary", 0, num_borrowed(books) # 0, "none")
    /\ UNCHANGED <<csv, book_db, current_loop_time, current_time_minutes,
                   current_day, book_i, borrow_log, fresh, borrows,
                   write_failed>>

\* "self.current_day += 1; self.simulate_day()"
NextDay ==
    /\ pc = "next_day"
    /\ current_day' = current_day + 1
    /\ current_loop_time' = start_time
    /\ pc' = LoopEntry(start_time, books)
    /\ last' = Event("next_day", 0, TRUE, "none")
    /\ summary' = NoSummary
    /\ fresh' = 0
    /\ UNCHANGED <<csv, book_db, books, current_time_minutes, book_i, exc,
                   borrow_log, borrows, write_failed>>

Next ==
    \/ SimulationInit
    \/ ReturnCheck
    \/ BorrowStep
    \/ DailySummary
    \/ NextDay

Spec == Init /\ [][Next]_vars

----------------------------------------------------------------------------
(* The Library called directly, with any title *)

LibEvent(op, title, ok, write, e) ==
    [op |-> op, title |-> title, ok |-> ok, write |-> write, exc |-> e]

\* a Library constructed from a readable file
InitLib ==
    /\ csv \in {f \in CsvFiles : f.ok}
    /\ book_db = csv.rows
    /\ books = _init_books(csv.rows)
    /\ current_loop_time = start_time
    /\ current_time_minutes = NoTime
    /\ current_day = 1
    /\ pc = "lib"
    /\ book_i = 1
    /\ exc = "none"
    /\ last = LibEvent("none", "", FALSE, "none", "none")
    /\ borrow_log = <<>>
    /\ summary = NoSummary
    /\ fresh = 0
    /\ borrows = 0
    /\ write_failed = FALSE

\* library.borrow_book(title)
CallBorrowBook ==
    /\ pc = "lib"
    /\ \E title \in AllTitles, write_ok \in BOOLEAN :
         LET r == borrow_book(book_db, title, write_ok) IN
         /\ book_db' = r.db
         /\ last' = LibEvent("borrow_book", title, r.result, r.write, r.exc)
    /\ UNCHANGED <<csv, books, current_loop_time, current_time_minutes,
                   current_day, pc, book_i, exc, borrow_log, summary,
                   fresh, borrows, write_failed>>

\* library.return_book(title)
CallReturnBook ==
    /\ pc = "lib"
    /\ \E title \in AllTitles, write_ok \in BOOLEAN :
         LET r == return_book(book_db, title, write_ok) IN
         /\ HasRow(book_db, title) => book_db[title] < MaxBooks
         /\ book_db' = r.db
         /\ last' = LibEvent("return_book", title, r.result, r.write, r.exc)
    /\ UNCHANGED <<csv, books, current_loop_time, current_time_minutes,
                   current_day, pc, book_i, exc, borrow_log, summary,
                   fresh, borrows, write_failed>>

NextLib ==
    \/ CallBorrowBook
    \/ CallReturnBook

SpecLib == InitLib /\ [][NextLib]_vars

----------------------------------------------------------------------------
(* Properties *)

Copies == 1..Len(books)
TitleOf(c) == books[c].title
BorrowedUnreturned(b) == b.borrowed /\ ~b.returned

\* the step taken is a return attempt whose dice succeeded
ReturnAttempted == pc = "returns" /\ last'.op = "return"
\* the step taken is a borrow attempt that chose a copy
BorrowAttempted == pc = "borrow" /\ last'.op = "borrow" /\ last'.copy # 0

\* C1: in every reachable state the available-copy count of every title is
\* >= 0 and <= the count the title had in the file the catalog was loaded
\* from, store-write failures included.
C1_CountInRange ==
    \A t \in DOMAIN book_db : 0 <= book_db[t] /\ book_db[t] <= csv.rows[t]

\* a return whose write failed has put the count back at its loaded value
C1_Witness ==
    /\ last.op = "return"
    /\ last.write = "fail"
    /\ book_db[TitleOf(last.copy)] = csv.rows[TitleOf(last.copy)]

\* C2: a successful borrow of a copy of T followed by its successful return,
\* with no other copy of T borrowed or returned in between, leaves T's count
\* at its value just before the borrow.
C2_RoundTrip ==
    [][(ReturnAttempted /\ last'.ok /\ borrow_log[last'.copy].clean)
         => book_db'[TitleOf(last'.copy)] = borrow_log[last'.copy].pre]_vars

\* C3: after the rollover, the return-time of every copy that ended the day
\* Borrowed-Unreturned is a minute the next day's loop visits, that is a
\* minute in [start_time, end_time).
C3_AnotherChance ==
    [][(pc = "summary" /\ pc' = "next_day")
         => \A c \in Copies :
              BorrowedUnreturned(books[c])
                => /\ ~Before(books'[c].return_time, start_time)
                   /\ Before(books'[c].return_time, end_time)]_vars

\* C4: on every successful borrow at minute now the stored return-time
\* satisfies now < return-time < end_time.
C4_ReturnTimeFuture ==
    [][(BorrowAttempted /\ last'.ok)
         => /\ Before(date_up_to_minutes(current_loop_time),
                      books'[last'.copy].return_time)
            /\ Before(books'[last'.copy].return_time, end_time)]_vars

\* C5: when a day ends with no copy borrowed, the summary completes and the
\* run goes on to the rollover and the next day.
C5_EmptySummary ==
    [][(pc = "summary" /\ num_borrowed(books) = 0) => pc' = "next_day"]_vars

\* C6: when the store write of a borrow or of a return fails, the operation
\* reports failure and neither the in-memory counts nor any copy changes.
C6_FailedWriteNoUpdate ==
    [][((ReturnAttempted \/ BorrowAttempted) /\ last'.write = "fail")
         => (~last'.ok /\ book_db' = book_db /\ books' = books)]_vars

\* C7: when the catalog file cannot be loaded the run does not abort: it
\* goes on with an empty catalog and no borrow or return ever succeeds.
C7_LoadFailureContinues ==
    ~csv.ok => /\ pc # "crashed"
               /\ ~(last.op \in {"borrow", "return"} /\ last.ok)

\* C8: for a title no row of the catalog has, borrow_book and return_book
\* both answer failure as a returned value, no exception escapes, and no
\* title's count changes.
C8_UnknownTitleFails ==
    [][(pc = "lib" /\ ~HasRow(book_db, last'.title))
         => (last'.exc = "none" /\ ~last'.ok /\ book_db' = book_db)]_vars

\* C9: a borrow attempt on a copy that is already borrowed, or whose title
\* has count 0, fails and changes no count and no field of any copy.
C9_FailedBorrowNoChange ==
    [][(BorrowAttempted
          /\ (books[last'.copy].borrowed \/ book_db[TitleOf(last'.copy)] = 0))
         => (~last'.ok /\ book_db' = book_db /\ books' = books)]_vars

\* a copy that is not borrowed was refused because its title's count is 0
C9_Witness ==
    /\ last.op = "borrow"
    /\ last.copy # 0
    /\ pc # "crashed"
    /\ ~last.ok
    /\ last.write = "none"
    /\ ~books[last.copy].borrowed
    /\ book_db[TitleOf(last.copy)] = 0

\* C10: when the store update of a return attempt fails the copy stays
\* Borrowed-Unreturned and keeps its return-time.
C10_FailedReturnKeepsCopy ==
    [][(ReturnAttempted /\ last'.write = "fail")
         => /\ books'[last'.copy].borrowed
            /\ ~books'[last'.copy].returned
            /\ books'[last'.copy].return_time
                 = books[last'.copy].return_time]_vars

\* a return attempt failed on its write and the copy is still out
C10_Witness ==
    /\ last.op = "return"
    /\ last.write = "fail"
    /\ ~last.ok
    /\ BorrowedUnreturned(books[last.copy])

\* the step taken is a daily summary that completed, followed by the rollover
RolledOver == pc = "summary" /\ pc' = "next_day"

\* C11: the rollover leaves borrowed and returned of every copy unchanged
\* and moves the return-time of every Borrowed-Unreturned copy forward by
\* exactly one calendar day, same hour and minute.
C11_RolloverShiftsOneDay ==
    [][RolledOver
         => \A c \in Copies :
              /\ books'[c].borrowed = books[c].borrowed
              /\ books'[c].returned = books[c].returned
              /\ BorrowedUnreturned(books[c])
                   => /\ books'[c].return_time.d = books[c].return_time.d + 1
                      /\ books'[c].return_time.m = books[c].return_time.m]_vars

\* the rollover has run over a copy that is out and over one that came back
C11_Witness ==
    /\ last.op = "summary"
    /\ pc = "next_day"
    /\ \E c \in Copies :
         BorrowedUnreturned(books[c]) /\ books[c].return_time.d = 1
    /\ \E c \in Copies : books[c].returned

\* C12: every copy is Available, Borrowed-Unreturned or Borrowed-Returned;
\* no copy has returned = TRUE while borrowed = FALSE.
C12_CopyStates ==
    \A c \in Copies : books[c].returned => books[c].borrowed

\* a copy that is still out beside one that came back
C12_Witness ==
    /\ \E c \in Copies : BorrowedUnreturned(books[c])
    /\ \E c \in Copies : books[c].borrowed /\ books[c].returned

\* C13: the run never stops on its own: every day that reaches end_time is
\* followed by its summary and rollover, then the day counter goes up by
\* exactly one and the next day starts at start_time.
C13_DayFollowsDay ==
    [][/\ pc = "summary" => pc' = "next_day"
       /\ pc = "next_day" => /\ current_day' = current_day + 1
                             /\ current_loop_time' = start_time
                             /\ pc' \in {"returns", "borrow"}]_vars

\* C15: the rollover changes the return-time of Borrowed-Unreturned copies
\* only: that of every Available and every Borrowed-Returned copy is the
\* same after it as before.
C15_RolloverFrame ==
    [][RolledOver
         => \A c \in Copies :
              ~BorrowedUnreturned(books[c])
                => books'[c].return_time = books[c].return_time]_vars

\* C16: returned goes from FALSE to TRUE only in a return step at the
\* minute equal to the copy's return-time, on a borrowed copy, after the
\* dice succeeded and return_book answered True; the title's count goes up
\* by exactly 1 and the copy stays borrowed.
C16_ReturnedOnlyByReturn ==
    [][\A c \in Copies :
         (c \in 1..Len(books') /\ ~books[c].returned /\ books'[c].returned)
           => /\ ReturnAttempted
              /\ last'.copy = c
              /\ last'.ok
              /\ last'.write = "ok"
              /\ books[c].return_time = date_up_to_minutes(current_loop_time)
              /\ books[c].borrowed
              /\ books'[c].borrowed
              /\ book_db'[TitleOf(c)] = book_db[TitleOf(c)] + 1]_vars

\* a copy has just come back
C16_Witness ==
    /\ last.op = "return"
    /\ last.ok
    /\ books[last.copy].returned
    /\ books[last.copy].borrowed

\* the borrowed copies of a title, and the place of the first of them
BorrowedOf(t) == {c \in Copies : books[c].title = t /\ books[c].borrowed}
FirstBorrowedOf(t) == CHOOSE c \in BorrowedOf(t) : \A x \in BorrowedOf(t) : c <= x

BecomesBorrowed(c) ==
    c \in 1..Len(books') /\ ~books[c].borrowed /\ books'[c].borrowed
BecomesReturned(c) ==
    c \in 1..Len(books') /\ ~books[c].returned /\ books'[c].returned

\* C17: within a minute the loop checks every copy for return, in order,
\* and only then makes at most one borrow attempt: at most one copy becomes
\* borrowed per minute, and no copy is borrowed and returned within the
\* same minute.
C17_ReturnsThenOneBorrow ==
    [][/\ (pc = "returns" /\ pc' = "returns") => book_i' = book_i + 1
       /\ (pc = "returns" /\ pc' # "returns")
            => (book_i = Len(books) /\ pc' = "borrow")
       /\ (pc # "returns" /\ pc' = "returns") => book_i' = 1
       /\ pc = "returns" => fresh = 0
       /\ \A c, x \in Copies :
            (BecomesBorrowed(c) /\ BecomesBorrowed(x)) => c = x
       /\ \A c \in Copies :
            /\ BecomesBorrowed(c) => (pc = "borrow" /\ fresh = 0)
            /\ BecomesReturned(c) => fresh # c]_vars

\* a copy borrowed with a return-time equal to its borrow minute is still
\* out when the loop is at the next minute
C17_Witness ==
    /\ last.op = "borrow"
    /\ last.ok
    /\ pc = "returns"
    /\ books[last.copy].return_time = AddMinutes(current_loop_time, -1)
    /\ BorrowedUnreturned(books[last.copy])

CopiesOf(t) == {c \in Copies : books[c].title = t}

\* C18: as long as no store write has failed, for every title the count
\* plus the number of its Borrowed-Unreturned copies equals the count the
\* title was loaded with, which is the number of its copies.
C18_Conservation ==
    ~write_failed
      => \A t \in DOMAIN book_db :
           /\ book_db[t]
                + Cardinality({c \in CopiesOf(t) : BorrowedUnreturned(books[c])})
                = csv.rows[t]
           /\ csv.rows[t] = Cardinality(CopiesOf(t))

\* on the second day, one copy out and one returned, no write failed
C18_Witness ==
    /\ write_failed = FALSE
    /\ current_day = 2
    /\ \E c \in Copies : BorrowedUnreturned(books[c])
    /\ \E c \in Copies : books[c].returned

\* C19: no step clears a borrowed flag and a successful borrow takes a copy
\* that was not borrowed, so each copy is borrowed at most once and the
\* number of successful borrows over the whole run never exceeds the number
\* of copies.
C19_BorrowedOnce ==
    [][/\ \A c \in Copies :
            (c \in 1..Len(books') /\ books[c].borrowed) => books'[c].borrowed
       /\ (BorrowAttempted /\ last'.ok) => ~books[last'.copy].borrowed
       /\ borrows' <= Len(books')]_vars

\* every copy has been borrowed and a copy that came back is refused on a
\* later day
C19_Witness ==
    /\ current_day = 2
    /\ Len(books) = 2
    /\ borrows = 2
    /\ last.op = "borrow"
    /\ ~last.ok
    /\ last.copy # 0
    /\ books[last.copy].returned

====
